---- MODULE Spec2Model ----
(***************************************************************************)
(* StateEmbedEnvironment (reagent/gym/envs/pomdp/state_embed_env.py):      *)
(* a gym environment wrapper that keeps a bounded history of raw           *)
(* observations and actions, runs it through a sequence model and returns  *)
(* the model's last hidden state concatenated with the raw observation.    *)
(*                                                                         *)
(* One caller drives the object (the class is synchronous and              *)
(* non-reentrant).  pc is the position of that caller inside reset(),      *)
(* step() or embed_state(); the value after "reset:"/"step:"/"embed:" is   *)
(* the source line about to run.  A raised exception unwinds to "idle"     *)
(* with its class name in exc.                                             *)
(***************************************************************************)
EXTENDS Integers, Sequences, FiniteSets

\* ---------------------------------------------------------------- bounds
\* Largest max_embed_seq_len the constructor is given.
MaxSeqLen == 2
\* Largest number of pairs appended between two resets.
MaxSteps == 3

\* ------------------------------------------------- values of the inputs
\* self.env.observation_space.shape[0]
raw_state_dim == 2
\* self.mdnrnn.num_hiddens
embed_size == 2
\* n of the inner Discrete action space
DiscreteN == 2
\* shape[0] of the inner Box action space
BoxDim == 1

\* Python's None, for cur_raw_state (an observation is never the empty vector).
None == <<>>
\* An attribute __init__ never assigned (action_dim).
NoAttr == -1

\* No model input was built (prev_input).
NoInput == <<(<<>>), (<<>>), "">>

\* Raw observations the inner environment returns.
ObsSet == {<<1, 2>>, <<3, 4>>}
\* Elementwise bounds of the inner environment's observation space.
EnvLow == <<1, 2>>
EnvHigh == <<3, 4>>
\* (reward, terminal, info) triples the inner environment's step returns.
EnvOutcomes == {<<0, FALSE, "a">>, <<1, TRUE, "b">>}
\* Actions a caller passes for a Box action space.
BoxActions == {<<4>>, <<7>>}
\* Actions a caller passes for a Discrete action space; DiscreteN is out of range.
DiscreteActions == 0..DiscreteN
\* Kinds of the inner action space: gym.spaces.Discrete, gym.spaces.Box, any other.
SpaceKinds == {"Discrete", "Box", "Other"}

VARIABLES
    pc,                 \* position of the caller
    caller,             \* "reset" or "step": the call embed_state returns to
    exc,                \* class of the exception the last call raised, "" if none
    ret,                \* value the last call returned, <<>> if none
    \* fields of the object
    max_embed_seq_len, is_discrete_action, action_dim, observation_space,
    cur_raw_state, recent_states, recent_actions,
    \* self.mdnrnn.mdnrnn.training
    training,
    \* locals of step
    action, action_np, next_raw_state, reward, terminal, info,
    \* locals of embed_state
    state, old_mdnrnn_mode, mdnrnn_state, mdnrnn_action, mdnrnn_output,
    hidden_embed, state_embed,
    \* history of the run, read by the properties only
    hist,               \* pairs appended since the last reset, oldest first
    reset_seen,         \* an inner reset has returned since construction
    init_args,          \* the bounds __init__ was given: min, max, inner low, inner high
    returned,           \* step() calls that returned since the last reset
    aborted,            \* step() calls since the last reset that raised after line 120
    pre_cur,            \* cur_raw_state when the current call started
    pre_states,         \* recent_states when the current call started
    pre_actions,        \* recent_actions when the current call started
    prev_input,         \* in a direct embed_state call: the model input (states, actions)
                        \* the call before it built, and that call's name
    pre_mode,           \* training when embed_state was last called
    env_arg,            \* argument of the last inner step call of this call
    env_calls,          \* calls of the inner reset/step made in this call
    env_out             \* what the inner reset/step returned in this call

fields == <<max_embed_seq_len, is_discrete_action, action_dim, observation_space,
            cur_raw_state, recent_states, recent_actions>>
stepLocals == <<action, action_np, next_raw_state, reward, terminal, info>>
embedLocals == <<state, old_mdnrnn_mode, mdnrnn_state, mdnrnn_action,
                 mdnrnn_output, hidden_embed, state_embed>>
atCall == <<pre_cur, pre_states, pre_actions, prev_input>>
ghosts == <<hist, reset_seen, init_args, returned, aborted, atCall, pre_mode,
           env_arg, env_calls, env_out>>
vars == <<pc, caller, exc, ret, fields, training, stepLocals, embedLocals, ghosts>>

\* ------------------------------------------------------------- helpers
\* np.zeros(n)
Zeros(n) == [j \in 1..n |-> 0]

\* OneHot with the 1.0 one position too low.
OneHot_shifted(n, i) == [j \in 1..n |-> IF j = i THEN 1 ELSE 0]

\* action_np = np.zeros(n); action_np[i] = 1.0   (0-based i; a negative i
\* counts from the end, as numpy indexing does)
OneHot(n, i) == [j \in 1..n |-> IF j = (IF i < 0 THEN n + i ELSE i) + 1 THEN 1 ELSE 0]

\* action_np[i] = 1.0 raises IndexError outside -n..n-1
IndexInRange(n, i) == i >= -n /\ i < n

\* DequeAppend that refuses the new element when full, keeping the oldest.
DequeAppend_keepOldest(d, x, m) ==
    IF Len(d) >= m THEN d ELSE Append(d, x)

\* DequeAppend that pushes at the left end (appendleft).
DequeAppend_left(d, x, m) ==
    IF m = 0 THEN d
    ELSE IF Len(d) >= m THEN <<x>> \o SubSeq(d, 1, Len(d) - 1)
    ELSE <<x>> \o d

\* DequeAppend of a deque built without maxlen.
DequeAppend_unbounded(d, x, m) == Append(d, x)

\* deque(maxlen=m).append(x): drops the oldest element when full
DequeAppend(d, x, m) ==
    IF m = 0 THEN d
    ELSE IF Len(d) >= m THEN Append(Tail(d), x)
    ELSE Append(d, x)

\* np.hstack((a, b))
HStack(a, b) == a \o b

SeqSum(s) == IF Len(s) = 0 THEN 0 ELSE
    LET F[i \in 0..Len(s)] == IF i = 0 THEN 0 ELSE F[i - 1] + s[i] IN F[Len(s)]

\* MemoryNetwork forward: all_steps_lstm_hidden, one hidden vector of length
\* embed_size per time step, a function of the inputs up to that step.
Forward(states, actions) ==
    [t \in 1..Len(states) |->
        [h \in 1..embed_size |->
            IF h = 1 THEN t
            ELSE SeqSum(states[t]) + SeqSum(actions[t]) + 10 * (t - 1)]]

\* LastHidden taking the first time step.
LastHidden_first(out) == out[1]

\* all_steps_lstm_hidden[-1].squeeze()
LastHidden(out) == out[Len(out)]

\* ---------------------------------------------------------------- Init
\* Before the constructor runs.  The model is a torch module: training = True.
Init ==
    /\ pc = "new"
    /\ caller = ""
    /\ exc = ""
    /\ ret = <<>>
    /\ max_embed_seq_len = 0
    /\ is_discrete_action = "unset"
    /\ action_dim = NoAttr
    /\ cur_raw_state = None
    /\ recent_states = <<>>
    /\ recent_actions = <<>>
    /\ training = TRUE
    /\ action = <<>>
    /\ action_np = <<>>
    /\ next_raw_state = None
    /\ reward = 0
    /\ terminal = FALSE
    /\ info = ""
    /\ state = None
    /\ old_mdnrnn_mode = FALSE
    /\ mdnrnn_state = <<>>
    /\ mdnrnn_action = <<>>
    /\ mdnrnn_output = <<>>
    /\ hidden_embed = <<>>
    /\ state_embed = <<>>
    /\ observation_space = <<>>
    /\ hist = <<>>
    /\ reset_seen = FALSE
    /\ init_args = <<>>
    /\ returned = 0
    /\ aborted = 0
    /\ pre_cur = None
    /\ pre_states = <<>>
    /\ pre_actions = <<>>
    /\ prev_input = NoInput
    /\ pre_mode = TRUE
    /\ env_arg = <<>>
    /\ env_calls = 0
    /\ env_out = <<>>

\* Locals of a frame that has not run yet.
FreshStepLocals ==
    /\ action' = <<>>
    /\ action_np' = <<>>
    /\ next_raw_state' = None
    /\ reward' = 0
    /\ terminal' = FALSE
    /\ info' = ""

FreshEmbedLocals ==
    /\ state' = None
    /\ old_mdnrnn_mode' = FALSE
    /\ mdnrnn_state' = <<>>
    /\ mdnrnn_action' = <<>>
    /\ mdnrnn_output' = <<>>
    /\ hidden_embed' = <<>>
    /\ state_embed' = <<>>

\* An exception of class e leaves the call: nothing is returned.
Raise(e) ==
    /\ pc' = "idle"
    /\ exc' = e
    /\ ret' = <<>>

\* ------------------------------------------------------------ __init__
\* __init__, lines 37-64: the action-space kind decides is_discrete_action
\* and action_dim; for any other kind neither attribute is assigned and the
\* constructor still returns.
\* np.min / np.max over a vector of bounds (lines 55-56).
SeqMin(v) == CHOOSE x \in {v[j] : j \in 1..Len(v)} : \A j \in 1..Len(v) : x <= v[j]
SeqMax(v) == CHOOSE x \in {v[j] : j \in 1..Len(v)} : \A j \in 1..Len(v) : x >= v[j]

\* ObservationBounds that replaces only the bound that is missing.
ObservationBounds_perBound(smin, smax, low, high) ==
    <<IF smin = None THEN SeqMin(low) ELSE smin[1],
      IF smax = None THEN SeqMax(high) ELSE smax[1]>>

\* __init__, lines 53-56: the scalar bounds of the observation space.  An
\* optional float is None or a one-element tuple holding the value.
ObservationBounds(smin, smax, low, high) ==
    IF smin = None \/ smax = None
    THEN <<SeqMin(low), SeqMax(high)>>
    ELSE <<smin[1], smax[1]>>

\* __init__ with all its arguments: the bounds state_min_value and
\* state_max_value, and the inner observation space's low and high.
ConstructWith(kind, maxlen, smin, smax, low, high) ==
    /\ pc = "new"
    /\ pc' = "idle"
    /\ max_embed_seq_len' = maxlen
    /\ is_discrete_action' =
         IF kind = "Discrete" THEN "True"
         ELSE IF kind = "Box" THEN "False" ELSE "unset"
    /\ action_dim' =
         IF kind = "Discrete" THEN DiscreteN
         ELSE IF kind = "Box" THEN BoxDim ELSE NoAttr
    /\ observation_space' =
         LET b == ObservationBounds(smin, smax, low, high)
         IN  <<b[1], b[2], embed_size + raw_state_dim>>
    /\ cur_raw_state' = None
    /\ recent_states' = <<>>
    /\ recent_actions' = <<>>
    /\ init_args' = <<smin, smax, low, high>>
    /\ UNCHANGED <<caller, exc, ret, training, stepLocals, embedLocals,
                   hist, reset_seen, returned, aborted, atCall, pre_mode,
                   env_arg, env_calls, env_out>>

\* __init__ called without state_min_value and state_max_value.
Construct(kind, maxlen) == ConstructWith(kind, maxlen, None, None, EnvLow, EnvHigh)

\* The owner of the sequence model switches its mode between two calls.
mdnrnn_train(mode) ==
    /\ pc = "idle"
    /\ training # mode
    /\ training' = mode
    /\ UNCHANGED <<pc, caller, exc, ret, fields, stepLocals, embedLocals, ghosts>>

\* --------------------------------------------------------------- reset
\* reset_ok that keeps the old history.
reset_ok_keepsHistory(obs) ==
    /\ pc = "idle"
    /\ pc' = "embed:75"
    /\ caller' = "reset"
    /\ exc' = ""
    /\ ret' = <<>>
    /\ FreshStepLocals
    /\ FreshEmbedLocals
    /\ cur_raw_state' = obs
    /\ hist' = <<>>
    /\ reset_seen' = TRUE
    /\ init_args' = init_args
    /\ returned' = 0
    /\ aborted' = 0
    /\ pre_cur' = cur_raw_state
    /\ pre_states' = recent_states
    /\ pre_actions' = recent_actions
    /\ prev_input' = NoInput
    /\ pre_mode' = training
    /\ env_arg' = <<>>
    /\ env_calls' = 1
    /\ env_out' = <<obs>>
    /\ UNCHANGED <<max_embed_seq_len, is_discrete_action, action_dim, observation_space,
                   training,
                   recent_states, recent_actions>>

\* reset, lines 106-110: the inner reset returns obs; both deques are
\* replaced by empty ones; embed_state(next_raw_state) is entered.
reset_ok(obs) ==
    /\ pc = "idle"
    /\ pc' = "embed:75"
    /\ caller' = "reset"
    /\ exc' = ""
    /\ ret' = <<>>
    /\ FreshStepLocals
    /\ FreshEmbedLocals
    /\ recent_states' = <<>>
    /\ recent_actions' = <<>>
    /\ cur_raw_state' = obs
    /\ hist' = <<>>
    /\ reset_seen' = TRUE
    /\ init_args' = init_args
    /\ returned' = 0
    /\ aborted' = 0
    /\ pre_cur' = cur_raw_state
    /\ pre_states' = recent_states
    /\ pre_actions' = recent_actions
    /\ prev_input' = NoInput
    /\ pre_mode' = training
    /\ env_arg' = <<>>
    /\ env_calls' = 1
    /\ env_out' = <<obs>>
    /\ UNCHANGED <<max_embed_seq_len, is_discrete_action, action_dim, observation_space,
                   training>>

\* reset, line 106: the inner reset raises; nothing else has run.
reset_raise ==
    /\ pc = "idle"
    /\ Raise("EnvError")
    /\ caller' = "reset"
    /\ FreshStepLocals
    /\ FreshEmbedLocals
    /\ pre_cur' = cur_raw_state
    /\ pre_states' = recent_states
    /\ pre_actions' = recent_actions
    /\ prev_input' = NoInput
    /\ env_arg' = <<>>
    /\ env_calls' = 1
    /\ env_out' = <<>>
    /\ UNCHANGED <<fields, training, hist, reset_seen, init_args, returned, aborted,
                   pre_mode>>

\* ---------------------------------------------------------------- step
\* step, lines 114-118: the action is converted.
step_convert(a) ==
    /\ pc = "idle"
    /\ Len(hist) < MaxSteps
    /\ caller' = "step"
    /\ FreshEmbedLocals
    /\ pre_cur' = cur_raw_state
    /\ pre_states' = recent_states
    /\ pre_actions' = recent_actions
    /\ prev_input' = NoInput
    /\ env_arg' = <<>>
    /\ env_calls' = 0
    /\ env_out' = <<>>
    /\ action' = a
    /\ next_raw_state' = None
    /\ reward' = 0
    /\ terminal' = FALSE
    /\ info' = ""
    /\ IF is_discrete_action = "unset"
       THEN \* self.is_discrete_action is forwarded to the inner environment
            /\ Raise("AttributeError")
            /\ action_np' = <<>>
       ELSE IF is_discrete_action = "True"
       THEN IF IndexInRange(action_dim, a)
            THEN /\ action_np' = OneHot(action_dim, a)
                 /\ pc' = "step:119"
                 /\ exc' = ""
                 /\ ret' = <<>>
            ELSE /\ Raise("IndexError")
                 /\ action_np' = Zeros(action_dim)
       ELSE /\ action_np' = a
            /\ pc' = "step:119"
            /\ exc' = ""
            /\ ret' = <<>>
    /\ UNCHANGED <<fields, training, hist, reset_seen, init_args, returned, aborted,
                   pre_mode>>

\* step_append that appends the observation only.
step_append_statesOnly ==
    /\ pc = "step:119"
    /\ pc' = "step:121"
    /\ recent_states' = Append(recent_states, cur_raw_state)
    /\ hist' = Append(hist, <<cur_raw_state, action_np>>)
    /\ reset_seen' = reset_seen
    /\ init_args' = init_args
    /\ UNCHANGED <<caller, exc, ret, max_embed_seq_len, is_discrete_action, action_dim,
                   observation_space,
                   cur_raw_state, recent_actions, training, stepLocals, embedLocals,
                   returned, aborted, atCall, pre_mode, env_arg, env_calls, env_out>>

\* step_append that refuses to run while cur_raw_state is unset.
step_append_needsReset ==
    /\ pc = "step:119"
    /\ IF cur_raw_state = None
       THEN /\ Raise("AssertionError")
            /\ aborted' = aborted + 1
            /\ UNCHANGED <<recent_states, recent_actions, hist>>
       ELSE /\ pc' = "step:121"
            /\ recent_states' = DequeAppend(recent_states, cur_raw_state, max_embed_seq_len)
            /\ recent_actions' = DequeAppend(recent_actions, action_np, max_embed_seq_len)
            /\ hist' = Append(hist, <<cur_raw_state, action_np>>)
            /\ UNCHANGED <<exc, ret, aborted>>
    /\ UNCHANGED <<caller, max_embed_seq_len, is_discrete_action, action_dim,
                   observation_space,
                   cur_raw_state, training, stepLocals, embedLocals, reset_seen, init_args,
                   returned, atCall, pre_mode, env_arg, env_calls, env_out>>

\* step, lines 119-120: the pair (cur_raw_state, action_np) is appended.
step_append ==
    /\ pc = "step:119"
    /\ pc' = "step:121"
    /\ recent_states' = DequeAppend(recent_states, cur_raw_state, max_embed_seq_len)
    /\ recent_actions' = DequeAppend(recent_actions, action_np, max_embed_seq_len)
    /\ hist' = Append(hist, <<cur_raw_state, action_np>>)
    /\ reset_seen' = reset_seen
    /\ init_args' = init_args
    /\ UNCHANGED <<caller, exc, ret, max_embed_seq_len, is_discrete_action, action_dim,
                   observation_space,
                   cur_raw_state, training, stepLocals, embedLocals,
                   returned, aborted, atCall, pre_mode, env_arg, env_calls, env_out>>

\* step_env_ok that also records the observation the inner step returned.
step_env_ok_recordsNext(obs, r, t, i) ==
    /\ pc = "step:121"
    /\ pc' = "embed:75"
    /\ env_arg' = <<action>>
    /\ env_calls' = env_calls + 1
    /\ env_out' = <<obs, r, t, i>>
    /\ next_raw_state' = obs
    /\ reward' = r
    /\ terminal' = t
    /\ info' = i
    /\ cur_raw_state' = obs
    /\ pre_mode' = training
    /\ recent_states' = Append(recent_states, obs)
    /\ recent_actions' = Append(recent_actions, action_np)
    /\ UNCHANGED <<caller, exc, ret, max_embed_seq_len, is_discrete_action, action_dim,
                   observation_space,
                   training, action, action_np,
                   embedLocals, hist, reset_seen, init_args, returned, aborted, atCall>>

\* step_env_ok without line 123: cur_raw_state keeps the old observation.
step_env_ok_staleCur(obs, r, t, i) ==
    /\ pc = "step:121"
    /\ pc' = "embed:75"
    /\ env_arg' = <<action>>
    /\ env_calls' = env_calls + 1
    /\ env_out' = <<obs, r, t, i>>
    /\ next_raw_state' = obs
    /\ reward' = r
    /\ terminal' = t
    /\ info' = i
    /\ pre_mode' = training
    /\ UNCHANGED <<caller, exc, ret, fields, training, action, action_np,
                   embedLocals, hist, reset_seen, init_args, returned, aborted, atCall>>

\* step, lines 121-124: the inner step is given the caller's action and
\* returns (obs, r, t, i); embed_state(next_raw_state) is entered.
step_env_ok(obs, r, t, i) ==
    /\ pc = "step:121"
    /\ pc' = "embed:75"
    /\ env_arg' = <<action>>
    /\ env_calls' = env_calls + 1
    /\ env_out' = <<obs, r, t, i>>
    /\ next_raw_state' = obs
    /\ reward' = r
    /\ terminal' = t
    /\ info' = i
    /\ cur_raw_state' = obs
    /\ pre_mode' = training
    /\ UNCHANGED <<caller, exc, ret, max_embed_seq_len, is_discrete_action, action_dim,
                   observation_space,
                   recent_states, recent_actions, training, action, action_np,
                   embedLocals, hist, reset_seen, init_args, returned, aborted, atCall>>

\* step_env_raise that swallows the error and goes on with the old observation.
step_env_raise_swallowed ==
    /\ pc = "step:121"
    /\ pc' = "embed:75"
    /\ env_arg' = <<action>>
    /\ env_calls' = env_calls + 1
    /\ next_raw_state' = cur_raw_state
    /\ aborted' = aborted + 1
    /\ UNCHANGED <<caller, exc, ret, fields, training, action, action_np, reward,
                   terminal, info, embedLocals, hist, reset_seen, init_args, returned,
                   atCall, pre_mode, env_out>>

\* step_env_raise with the append of lines 119-120 undone.
step_env_raise_rollsBack ==
    /\ pc = "step:121"
    /\ Raise("EnvError")
    /\ env_arg' = <<action>>
    /\ env_calls' = env_calls + 1
    /\ aborted' = aborted + 1
    /\ recent_states' = pre_states
    /\ recent_actions' = pre_actions
    /\ UNCHANGED <<caller, max_embed_seq_len, is_discrete_action, action_dim,
                   observation_space,
                   cur_raw_state, training, stepLocals, embedLocals,
                   hist, reset_seen, init_args, returned, atCall, pre_mode, env_out>>

\* step, line 121: the inner step raises; lines 119-120 are not undone.
step_env_raise ==
    /\ pc = "step:121"
    /\ Raise("EnvError")
    /\ env_arg' = <<action>>
    /\ env_calls' = env_calls + 1
    /\ aborted' = aborted + 1
    /\ UNCHANGED <<caller, fields, training, stepLocals, embedLocals,
                   hist, reset_seen, init_args, returned, atCall, pre_mode, env_out>>

\* --------------------------------------------------------- embed_state
\* The raw observation embed_state is called with (line 110 / line 124, or
\* the argument of a direct call, already bound to state).
EmbedArg ==
    IF caller = "reset" THEN cur_raw_state
    ELSE IF caller = "step" THEN next_raw_state
    ELSE state

\* torch.tensor(np.array(list(d)), dtype=torch.float) raises when an
\* element of d is None.
HasNone(d) == \E j \in 1..Len(d) : d[j] = None

\* embed_state, lines 75-89: the assertion, the mode is saved and set to
\* evaluation, the model input is built.
embed_state_begin ==
    /\ pc = "embed:75"
    /\ state' = EmbedArg
    /\ IF Len(recent_states) # Len(recent_actions)
       THEN /\ Raise("AssertionError")
            /\ UNCHANGED <<training, old_mdnrnn_mode, mdnrnn_state, mdnrnn_action>>
       ELSE /\ old_mdnrnn_mode' = training
            /\ training' = FALSE
            /\ IF Len(recent_states) = 0
               THEN IF action_dim = NoAttr
                    THEN \* self.action_dim is forwarded to the inner environment
                         /\ Raise("AttributeError")
                         /\ mdnrnn_state' = <<Zeros(raw_state_dim)>>
                         /\ UNCHANGED mdnrnn_action
                    ELSE /\ mdnrnn_state' = <<Zeros(raw_state_dim)>>
                         /\ mdnrnn_action' = <<Zeros(action_dim)>>
                         /\ pc' = "embed:90"
                         /\ UNCHANGED <<exc, ret>>
               ELSE IF HasNone(recent_states)
                    THEN /\ Raise("TypeError")
                         /\ UNCHANGED <<mdnrnn_state, mdnrnn_action>>
                    ELSE /\ mdnrnn_state' = recent_states
                         /\ mdnrnn_action' = recent_actions
                         /\ pc' = "embed:90"
                         /\ UNCHANGED <<exc, ret>>
    /\ aborted' = IF caller = "step" /\ pc' = "idle" THEN aborted + 1 ELSE aborted
    /\ UNCHANGED <<caller, fields, stepLocals, mdnrnn_output, hidden_embed, state_embed,
                   hist, reset_seen, init_args, returned, atCall, pre_mode, env_arg,
                   env_calls, env_out>>

\* embed_state, lines 90-92: the forward pass returns.
embed_state_forward_ok ==
    /\ pc = "embed:90"
    /\ pc' = "embed:93"
    /\ mdnrnn_output' = Forward(mdnrnn_state, mdnrnn_action)
    /\ UNCHANGED <<caller, exc, ret, fields, training, stepLocals, state, old_mdnrnn_mode,
                   mdnrnn_state, mdnrnn_action, hidden_embed, state_embed, ghosts>>

\* embed_state, lines 90-92: the forward pass raises; line 97 is not reached.
embed_state_forward_raise ==
    /\ pc = "embed:90"
    /\ Raise("ModelError")
    /\ aborted' = IF caller = "step" THEN aborted + 1 ELSE aborted
    /\ UNCHANGED <<caller, fields, training, stepLocals, embedLocals,
                   hist, reset_seen, init_args, returned, atCall, pre_mode, env_arg,
                   env_calls, env_out>>

\* embed_state_hstack that also records the embedded observation in the history.
embed_state_hstack_recordsState ==
    /\ pc = "embed:93"
    /\ pc' = "embed:97"
    /\ hidden_embed' = LastHidden(mdnrnn_output)
    /\ state_embed' = HStack(LastHidden(mdnrnn_output), state)
    /\ recent_states' = DequeAppend(recent_states, state, max_embed_seq_len)
    /\ recent_actions' = DequeAppend(recent_actions, Zeros(action_dim), max_embed_seq_len)
    /\ UNCHANGED <<caller, exc, ret, max_embed_seq_len, is_discrete_action, action_dim,
                   observation_space,
                   cur_raw_state, training, stepLocals, state, old_mdnrnn_mode,
                   mdnrnn_state, mdnrnn_action, mdnrnn_output, ghosts>>

\* embed_state, lines 93-96: the last hidden state, then the raw observation.
embed_state_hstack ==
    /\ pc = "embed:93"
    /\ pc' = "embed:97"
    /\ hidden_embed' = LastHidden(mdnrnn_output)
    /\ state_embed' = HStack(LastHidden(mdnrnn_output), state)
    /\ UNCHANGED <<caller, exc, ret, fields, training, stepLocals, state, old_mdnrnn_mode,
                   mdnrnn_state, mdnrnn_action, mdnrnn_output, ghosts>>

\* embed_state_train that calls train() without the saved mode.
embed_state_train_alwaysTrain ==
    /\ pc = "embed:97"
    /\ pc' = "embed:103"
    /\ training' = TRUE
    /\ UNCHANGED <<caller, exc, ret, fields, stepLocals, embedLocals, ghosts>>

\* embed_state, line 97: the saved mode is written back.
embed_state_train ==
    /\ pc = "embed:97"
    /\ pc' = "embed:103"
    /\ training' = old_mdnrnn_mode
    /\ UNCHANGED <<caller, exc, ret, fields, stepLocals, embedLocals, ghosts>>

\* embed_state line 103, reset line 111.
reset_return ==
    /\ pc = "embed:103"
    /\ caller = "reset"
    /\ pc' = "idle"
    /\ ret' = state_embed
    /\ UNCHANGED <<caller, exc, fields, training, stepLocals, embedLocals, ghosts>>

\* embed_state, line 73, called directly by the user of the adapter with the
\* raw observation s (the method is public).
embed_state_call(s) ==
    /\ pc = "idle"
    /\ pc' = "embed:75"
    /\ caller' = "embed_state"
    /\ exc' = ""
    /\ ret' = <<>>
    /\ FreshStepLocals
    /\ state' = s
    /\ old_mdnrnn_mode' = FALSE
    /\ mdnrnn_state' = <<>>
    /\ mdnrnn_action' = <<>>
    /\ mdnrnn_output' = <<>>
    /\ hidden_embed' = <<>>
    /\ state_embed' = <<>>
    /\ pre_cur' = cur_raw_state
    /\ pre_states' = recent_states
    /\ pre_actions' = recent_actions
    /\ prev_input' = <<mdnrnn_state, mdnrnn_action, caller>>
    /\ pre_mode' = training
    /\ env_arg' = <<>>
    /\ env_calls' = 0
    /\ env_out' = <<>>
    /\ UNCHANGED <<fields, training, hist, reset_seen, init_args, returned, aborted>>

\* embed_state line 103, returning to the direct caller.
embed_state_return ==
    /\ pc = "embed:103"
    /\ caller = "embed_state"
    /\ pc' = "idle"
    /\ ret' = state_embed
    /\ UNCHANGED <<caller, exc, fields, training, stepLocals, embedLocals, ghosts>>

\* step_return that reports the episode as never finished.
step_return_notTerminal ==
    /\ pc = "embed:103"
    /\ caller = "step"
    /\ pc' = "idle"
    /\ ret' = <<state_embed, reward, FALSE, info>>
    /\ returned' = returned + 1
    /\ UNCHANGED <<caller, exc, fields, training, stepLocals, embedLocals,
                   hist, reset_seen, init_args, aborted, atCall, pre_mode, env_arg,
                   env_calls, env_out>>

\* step_return that starts a new history when the episode has ended.
step_return_clearsOnTerminal ==
    /\ pc = "embed:103"
    /\ caller = "step"
    /\ pc' = "idle"
    /\ ret' = <<state_embed, reward, terminal, info>>
    /\ returned' = returned + 1
    /\ recent_states' = IF terminal THEN <<>> ELSE recent_states
    /\ recent_actions' = IF terminal THEN <<>> ELSE recent_actions
    /\ UNCHANGED <<caller, exc, max_embed_seq_len, is_discrete_action, action_dim,
                   observation_space,
                   cur_raw_state, training, stepLocals, embedLocals,
                   hist, reset_seen, init_args, aborted, atCall, pre_mode, env_arg,
                   env_calls, env_out>>

\* embed_state line 103, step line 125.
step_return ==
    /\ pc = "embed:103"
    /\ caller = "step"
    /\ pc' = "idle"
    /\ ret' = <<state_embed, reward, terminal, info>>
    /\ returned' = returned + 1
    /\ UNCHANGED <<caller, exc, fields, training, stepLocals, embedLocals,
                   hist, reset_seen, init_args, aborted, atCall, pre_mode, env_arg,
                   env_calls, env_out>>

\* ---------------------------------------------------------------- Next
\* Actions a caller passes to step for the action space the adapter wraps.
StepInputs == IF is_discrete_action = "False" THEN BoxActions ELSE DiscreteActions

Next ==
    \/ \E kind \in SpaceKinds, maxlen \in 0..MaxSeqLen : Construct(kind, maxlen)
    \/ \E mode \in BOOLEAN : mdnrnn_train(mode)
    \/ \E obs \in ObsSet : reset_ok(obs)
    \/ reset_raise
    \/ \E a \in StepInputs : step_convert(a)
    \/ step_append
    \/ \E obs \in ObsSet, o \in EnvOutcomes : step_env_ok(obs, o[1], o[2], o[3])
    \/ step_env_raise
    \/ embed_state_begin
    \/ embed_state_forward_ok
    \/ embed_state_forward_raise
    \/ embed_state_hstack
    \/ embed_state_train
    \/ reset_return
    \/ step_return

Spec == Init /\ [][Next]_vars

\* The adapter with embed_state also called directly, between reset and step
\* calls; the inner environment does not raise and the owner of the model
\* leaves its mode alone.
NextWithEmbed ==
    \/ \E kind \in SpaceKinds, maxlen \in 0..MaxSeqLen : Construct(kind, maxlen)
    \/ \E obs \in ObsSet : reset_ok(obs)
    \/ \E a \in StepInputs : step_convert(a)
    \/ step_append
    \/ \E obs \in ObsSet, o \in EnvOutcomes : step_env_ok(obs, o[1], o[2], o[3])
    \/ \E s \in ObsSet : embed_state_call(s)
    \/ embed_state_begin
    \/ embed_state_forward_ok
    \/ embed_state_forward_raise
    \/ embed_state_hstack
    \/ embed_state_train
    \/ reset_return
    \/ step_return
    \/ embed_state_return

SpecEmbed == Init /\ [][NextWithEmbed]_vars

\* ============================================================ properties
\* Positions inside embed_state.
EmbedPcs == {"embed:75", "embed:90", "embed:93", "embed:97", "embed:103"}

\* C1: every embed_state call, one that returns and also one in which the
\* forward pass raises, leaves the model's training flag as it was just
\* before the call.
C1_ModeRestoredOnEveryExit ==
    [][(pc \in EmbedPcs /\ pc' = "idle" /\ exc' \in {"", "ModelError"})
          => training' = pre_mode]_vars

\* C2: the observation history and the action history have the same length
\* in every reachable state, also after calls that raised part-way, and the
\* assertion of line 75 never fails.
C2_EqualLengths ==
    /\ Len(recent_states) = Len(recent_actions)
    /\ exc # "AssertionError"

\* A step whose inner step raised after the append has left a non-empty buffer.
C2_Witness ==
    /\ pc = "idle"
    /\ exc = "EnvError"
    /\ caller = "step"
    /\ Len(recent_states) > 0

Min(a, b) == IF a <= b THEN a ELSE b
\* The last n elements of s.
LastN(s, n) == SubSeq(s, Len(s) - n + 1, Len(s))
\* The observations, and the actions, appended since the last reset.
HistStates == [j \in 1..Len(hist) |-> hist[j][1]]
HistActions == [j \in 1..Len(hist) |-> hist[j][2]]

\* C3: the buffer never holds more than max_embed_seq_len pairs; it holds
\* the most recently appended pairs, oldest first; between calls the number
\* of pairs appended since the last reset is the number of step calls that
\* returned plus those that raised after appending, so after k successful
\* steps (and no failed one) the buffer holds min(k, max_embed_seq_len) pairs.
C3_BoundedMostRecent ==
    /\ Len(recent_states) <= max_embed_seq_len
    /\ Len(recent_actions) <= max_embed_seq_len
    /\ recent_states = LastN(HistStates, Min(Len(hist), max_embed_seq_len))
    /\ recent_actions = LastN(HistActions, Min(Len(hist), max_embed_seq_len))
    /\ pc = "idle" => Len(hist) = returned + aborted
    /\ (pc = "idle" /\ aborted = 0) =>
          /\ Len(recent_states) = Min(returned, max_embed_seq_len)
          /\ Len(recent_actions) = Min(returned, max_embed_seq_len)

\* More successful steps than the capacity: the oldest pair has been evicted.
C3_Witness ==
    /\ pc = "idle"
    /\ aborted = 0
    /\ max_embed_seq_len >= 1
    /\ returned > max_embed_seq_len
    /\ Len(recent_states) = max_embed_seq_len
    /\ recent_states # SubSeq(HistStates, 1, max_embed_seq_len)

\* ------------------------------------------------------------ scenario
\* The scenario of the specification's testable properties:
\* max_embed_seq_len = 3, raw_state_dim = 2, a Discrete action space of
\* size 2; reset(), then step(0) three times while the inner environment
\* returns [1,1], [2,2], [3,3].  The mode switches, the rewards and the
\* failures of the collaborators stay free.
ScenarioStepObs == <<(<<1, 1>>), (<<2, 2>>), (<<3, 3>>)>>
\* Observations the inner reset returns in the scenario.
ScenarioResetObs == {<<0, 0>>, <<5, 5>>}

ScenarioNext ==
    \/ Construct("Discrete", Len(ScenarioStepObs))
    \/ \E mode \in BOOLEAN : mdnrnn_train(mode)
    \/ \E obs \in ScenarioResetObs : reset_ok(obs)
    \/ reset_raise
    \/ Len(hist) < Len(ScenarioStepObs) /\ cur_raw_state # None /\ step_convert(0)
    \/ step_append
    \/ \E o \in EnvOutcomes : step_env_ok(ScenarioStepObs[Len(hist)], o[1], o[2], o[3])
    \/ step_env_raise
    \/ embed_state_begin
    \/ embed_state_forward_ok
    \/ embed_state_forward_raise
    \/ embed_state_hstack
    \/ embed_state_train
    \/ reset_return
    \/ step_return

SpecScenario == Init /\ [][ScenarioNext]_vars

\* reset() and three step(0) calls have returned, none has raised.
ScenarioDone ==
    /\ pc = "idle"
    /\ caller = "step"
    /\ exc = ""
    /\ returned = Len(ScenarioStepObs)
    /\ aborted = 0

\* C4 as stated: after the scenario the buffer holds exactly the pairs for
\* [1,1] and [2,2], each with one-hot action [1,0], and [3,3] is the
\* CurrentRawState, not appended.
C4_BufferHoldsTwoPairs ==
    ScenarioDone =>
        /\ recent_states = <<(<<1, 1>>), (<<2, 2>>)>>
        /\ recent_actions = <<(<<1, 0>>), (<<1, 0>>)>>
        /\ cur_raw_state = <<3, 3>>

\* C4 amended: after the scenario the buffer holds three pairs: the
\* observation the inner reset returned, then [1,1], then [2,2], each with
\* one-hot action [1,0]; [3,3] is the CurrentRawState and is in no pair.
C4_BufferHoldsResetAndTwoPairs ==
    ScenarioDone =>
        /\ Len(recent_states) = 3
        /\ recent_states[1] \in ScenarioResetObs
        /\ recent_states[2] = <<1, 1>>
        /\ recent_states[3] = <<2, 2>>
        /\ recent_actions = <<(<<1, 0>>), (<<1, 0>>), (<<1, 0>>)>>
        /\ cur_raw_state = <<3, 3>>

C4_Witness ==
    /\ ScenarioDone
    /\ max_embed_seq_len = 3
    /\ is_discrete_action = "True"
    /\ action_dim = 2
    /\ env_out[1] = <<3, 3>>

\* ------------------------------------------------------------------------
\* C5: an adapter around an action space that is neither Discrete nor Box
\* is rejected by the constructor: every constructed adapter has its
\* action-space kind decided.
C5_KindDecidedAtConstruction ==
    pc # "new" => is_discrete_action \in {"True", "False"}

\* The inner reset of the current (or last) reset call has returned.
InnerResetReturned == caller = "reset" /\ env_out # <<>>

\* C6: a reset whose inner reset has returned leaves both histories empty,
\* whatever they held, and the model input built in that call is one time
\* step of an all-zero observation and an all-zero action; the observation
\* the inner reset returned is no part of it.
C6_ResetClearsAndUsesZeros ==
    /\ (InnerResetReturned /\ pc \in EmbedPcs \cup {"idle"}) =>
          /\ recent_states = <<>>
          /\ recent_actions = <<>>
    /\ (InnerResetReturned /\ pc \in EmbedPcs \ {"embed:75"}) =>
          /\ Len(mdnrnn_state) = 1
          /\ Len(mdnrnn_action) = 1
          /\ Len(mdnrnn_state[1]) = raw_state_dim
          /\ Len(mdnrnn_action[1]) = action_dim
          /\ \A j \in 1..raw_state_dim : mdnrnn_state[1][j] = 0
          /\ \A j \in 1..action_dim : mdnrnn_action[1][j] = 0
          /\ mdnrnn_state[1] # env_out[1]

\* A reset called on a full buffer is about to run the forward pass.
C6_Witness ==
    /\ InnerResetReturned
    /\ pc = "embed:90"
    /\ max_embed_seq_len >= 1
    /\ Len(pre_states) = max_embed_seq_len
    /\ cur_raw_state = env_out[1]

\* Positions of step after the append of lines 119-120.
AfterAppendPcs == {"step:121"} \cup EmbedPcs

\* The buffer the call started with, with (pre_cur, action_np) appended.
BufferPlusPair(buf, x) ==
    LastN(Append(buf, x), Min(Len(buf) + 1, max_embed_seq_len))

\* C7 as stated: in every step the pair appended is (CurrentRawState before
\* the call, converted action); it is appended before the inner step is
\* invoked; the embed call sees a buffer whose newest pair is this one and
\* which has no entry for the observation the inner step returned.
C7_NewestPairIsPreCallState ==
    /\ (caller = "step" /\ pc = "step:119") =>
          /\ recent_states = pre_states
          /\ recent_actions = pre_actions
          /\ env_arg = <<>>
    /\ (caller = "step" /\ pc = "step:121") => env_arg = <<>>
    /\ (caller = "step" /\ pc \in AfterAppendPcs) =>
          /\ Len(recent_states) >= 1
          /\ recent_states[Len(recent_states)] = pre_cur
          /\ recent_actions[Len(recent_actions)] = action_np
          /\ recent_states = BufferPlusPair(pre_states, pre_cur)
          /\ recent_actions = BufferPlusPair(pre_actions, action_np)
    /\ (caller = "step" /\ pc \in EmbedPcs \ {"embed:75"}) =>
          /\ mdnrnn_state = recent_states
          /\ mdnrnn_action = recent_actions

\* C7 amended: the same, with the newest pair being this one when
\* max_embed_seq_len >= 1; with max_embed_seq_len = 0 the deque discards
\* the pair, the buffer stays empty and the model input is the zero step.
C7_AppendedPairIsPreCallState ==
    /\ (caller = "step" /\ pc = "step:119") =>
          /\ recent_states = pre_states
          /\ recent_actions = pre_actions
          /\ env_arg = <<>>
    /\ (caller = "step" /\ pc = "step:121") => env_arg = <<>>
    /\ (caller = "step" /\ pc \in AfterAppendPcs) =>
          /\ hist[Len(hist)] = <<pre_cur, action_np>>
          /\ recent_states = BufferPlusPair(pre_states, pre_cur)
          /\ recent_actions = BufferPlusPair(pre_actions, action_np)
          /\ max_embed_seq_len >= 1 =>
                /\ recent_states[Len(recent_states)] = pre_cur
                /\ recent_actions[Len(recent_actions)] = action_np
          /\ max_embed_seq_len = 0 =>
                /\ recent_states = <<>>
                /\ recent_actions = <<>>
    /\ (caller = "step" /\ pc \in EmbedPcs \ {"embed:75"}) =>
          IF max_embed_seq_len >= 1
          THEN /\ mdnrnn_state = recent_states
               /\ mdnrnn_action = recent_actions
          ELSE /\ Len(mdnrnn_state) = 1
               /\ \A j \in 1..raw_state_dim : mdnrnn_state[1][j] = 0

\* A step on a full buffer has evicted the oldest pair and is about to run
\* the forward pass on an observation different from the one it appended.
C7_Witness ==
    /\ caller = "step"
    /\ pc = "embed:90"
    /\ max_embed_seq_len >= 1
    /\ Len(pre_states) = max_embed_seq_len
    /\ next_raw_state # pre_cur

\* The last call was a step and it returned.
StepReturned == pc = "idle" /\ caller = "step" /\ exc = "" /\ ret # <<>>
\* The last call was a reset and it returned.
ResetReturned == pc = "idle" /\ caller = "reset" /\ exc = "" /\ ret # <<>>

\* C8: the reward, the terminal flag and the info of the tuple a step
\* returns are the ones the inner step returned in that call.
C8_PassThrough ==
    StepReturned =>
        /\ Len(ret) = 4
        /\ ret[2] = env_out[2]
        /\ ret[3] = env_out[3]
        /\ ret[4] = env_out[4]

\* A step that ended the episode has returned, with a non-empty history.
C8_Witness ==
    /\ StepReturned
    /\ env_out[3] = TRUE
    /\ env_out[2] = 1
    /\ Len(recent_states) >= 1

\* The observation the last call returned.
ReturnedObs == IF caller = "reset" THEN ret ELSE ret[1]

\* C9: the observation reset or step returns has length
\* embed_size + raw_state_dim; its first embed_size entries are the model's
\* hidden output at the last time step of the input, the rest is the raw
\* observation the inner environment returned in that call, unchanged.
C9_AugmentedState ==
    (StepReturned \/ ResetReturned) =>
        /\ Len(ReturnedObs) = embed_size + raw_state_dim
        /\ Len(mdnrnn_output) = Len(mdnrnn_state)
        /\ \A j \in 1..embed_size :
              ReturnedObs[j] = mdnrnn_output[Len(mdnrnn_state)][j]
        /\ \A j \in 1..raw_state_dim :
              ReturnedObs[embed_size + j] = env_out[1][j]

\* A step has returned after a forward pass over more than one time step.
C9_Witness ==
    /\ StepReturned
    /\ Len(mdnrnn_state) >= 2
    /\ mdnrnn_output[1] # mdnrnn_output[Len(mdnrnn_state)]

\* C10: a Discrete action i in 0..n-1 is recorded as the length-n vector
\* with 1 at position i and 0 elsewhere, a Box action is recorded
\* unchanged, and the inner step receives the action as the caller passed it.
C10_ActionConversion ==
    /\ (caller = "step" /\ pc \in AfterAppendPcs) =>
          LET stored == hist[Len(hist)][2] IN
          /\ (is_discrete_action = "True" /\ action \in 0..(action_dim - 1)) =>
                /\ Len(stored) = action_dim
                /\ \A j \in 1..action_dim :
                      stored[j] = IF j = action + 1 THEN 1 ELSE 0
          /\ is_discrete_action = "False" => stored = action
          /\ max_embed_seq_len >= 1 =>
                recent_actions[Len(recent_actions)] = stored
    /\ (caller = "step" /\ env_arg # <<>>) => env_arg = <<action>>

\* The highest index of a Discrete space has been converted and passed on.
C10_Witness ==
    /\ caller = "step"
    /\ pc = "embed:75"
    /\ is_discrete_action = "True"
    /\ action = action_dim - 1
    /\ max_embed_seq_len >= 1
    /\ env_arg = <<action>>

\* ------------------------------------------------------------------------
\* C11: no step of embed_state changes the observation history, the action
\* history or CurrentRawState, and a direct embed_state call that follows
\* another call builds the same model input as that call did.
C11_EmbedStateLeavesHistory ==
    [][/\ pc \in EmbedPcs =>
            /\ recent_states' = recent_states
            /\ recent_actions' = recent_actions
            /\ cur_raw_state' = cur_raw_state
       /\ (caller' = "embed_state" /\ pc = "embed:75" /\ pc' = "embed:90"
             /\ prev_input'[1] # <<>>) =>
            /\ mdnrnn_state' = prev_input'[1]
            /\ mdnrnn_action' = prev_input'[2]]_vars

\* The second of two direct embed_state calls in a row, on a non-empty
\* history, has built its model input.
C11_Witness ==
    /\ caller = "embed_state"
    /\ pc = "embed:90"
    /\ prev_input[3] = "embed_state"
    /\ prev_input[1] # <<>>
    /\ Len(recent_states) >= 1
    /\ recent_states = pre_states

\* ------------------------------------------------------------------------
\* The inner reset/step was called in this call and has returned nothing.
InnerEnvRaised == caller \in {"reset", "step"} /\ env_calls >= 1 /\ env_out = <<>>

\* C12: when the inner reset or step raises, the call ends there with that
\* error for the caller: the inner environment has been called once, no
\* model input was built and no forward pass has run in that call; and no
\* call ever calls the inner environment twice.
C12_InnerErrorPropagates ==
    /\ env_calls <= 1
    /\ InnerEnvRaised =>
          /\ pc = "idle"
          /\ exc = "EnvError"
          /\ ret = <<>>
          /\ env_calls = 1
          /\ mdnrnn_state = <<>>
          /\ mdnrnn_action = <<>>
          /\ mdnrnn_output = <<>>
          /\ state = None

\* The inner step has raised in a step on a non-empty history.
C12_Witness ==
    /\ InnerEnvRaised
    /\ caller = "step"
    /\ env_arg # <<>>
    /\ Len(pre_states) >= 1

\* ------------------------------------------------------------------------
\* C13: the forward pass runs in evaluation mode whatever the mode was
\* before the call: the mode is saved and set to evaluation before the
\* forward pass starts, it is still evaluation when the output exists, and
\* the saved mode is written back only after that.
C13_ForwardInEvalMode ==
    /\ pc \in {"embed:90", "embed:93", "embed:97"} =>
          /\ training = FALSE
          /\ old_mdnrnn_mode = pre_mode
    /\ pc \in {"embed:93", "embed:97", "embed:103"} =>
          /\ Len(mdnrnn_output) = Len(mdnrnn_state)
          /\ Len(mdnrnn_output) >= 1
    /\ pc = "embed:103" =>
          /\ training = old_mdnrnn_mode
          /\ old_mdnrnn_mode = pre_mode

\* The model was in training mode before the call and the forward pass is
\* about to run in evaluation mode.
C13_Witness ==
    /\ pc = "embed:90"
    /\ pre_mode = TRUE
    /\ old_mdnrnn_mode = TRUE
    /\ training = FALSE

\* ------------------------------------------------------------------------
Max(a, b) == IF a >= b THEN a ELSE b
\* Positions of embed_state at which the model input has been built.
InputBuiltPcs == {"embed:90", "embed:93", "embed:97", "embed:103"}

\* C14: the observation sequence and the action sequence given to the model
\* have the same number T of time steps; T = 1 when the buffer is empty and
\* T = len(buffer) otherwise, so 1 <= T <= max(1, max_embed_seq_len); a
\* non-empty buffer is passed whole, oldest pair first.
C14_ModelInputShape ==
    pc \in InputBuiltPcs =>
        LET T == Len(mdnrnn_state) IN
        /\ Len(mdnrnn_action) = T
        /\ T = (IF Len(recent_states) = 0 THEN 1 ELSE Len(recent_states))
        /\ 1 <= T
        /\ T <= Max(1, max_embed_seq_len)
        /\ Len(recent_states) >= 1 =>
              /\ mdnrnn_state = recent_states
              /\ mdnrnn_action = recent_actions
              /\ \A j \in 1..T :
                    /\ mdnrnn_state[j] = hist[Len(hist) - T + j][1]
                    /\ mdnrnn_action[j] = hist[Len(hist) - T + j][2]

\* The forward pass is about to run on a full buffer of two or more
\* distinct observations.
C14_Witness ==
    /\ pc = "embed:90"
    /\ max_embed_seq_len >= 2
    /\ Len(mdnrnn_state) = max_embed_seq_len
    /\ Len(hist) > max_embed_seq_len
    /\ mdnrnn_state[1] # mdnrnn_state[2]

\* ------------------------------------------------------------------------
\* The current (or last) call is a step that has run lines 119-120.
StepHasAppended ==
    /\ caller = "step"
    /\ \/ pc \in AfterAppendPcs
       \/ pc = "idle" /\ exc \notin {"IndexError", "AttributeError"}

\* C15: after a reset or step that returns, CurrentRawState is the raw
\* observation the inner environment returned in that call and is the raw
\* part of the returned observation; the observation k-th from the end of
\* the buffer is the CurrentRawState held just before the k-th most recent
\* step (that reached the append) since the last reset.
C15_CurrentRawState ==
    /\ (StepReturned \/ ResetReturned) =>
          /\ cur_raw_state = env_out[1]
          /\ cur_raw_state \in ObsSet
          /\ \A j \in 1..raw_state_dim :
                ReturnedObs[embed_size + j] = cur_raw_state[j]
    /\ StepHasAppended =>
          /\ Len(hist) >= 1
          /\ hist[Len(hist)][1] = pre_cur
    /\ \A k \in 1..Len(recent_states) :
          /\ k <= Len(hist)
          /\ recent_states[Len(recent_states) - k + 1] = hist[Len(hist) - k + 1][1]

\* Two steps have returned: the buffer holds the two observations held
\* before them, and CurrentRawState is a third, newer one.
C15_Witness ==
    /\ StepReturned
    /\ Len(recent_states) >= 2
    /\ recent_states[Len(recent_states)] = pre_cur
    /\ recent_states[1] # recent_states[2]
    /\ cur_raw_state # pre_cur

\* ------------------------------------------------------------------------
\* The last call was a step whose inner step raised.
InnerStepRaised == pc = "idle" /\ caller = "step" /\ InnerEnvRaised

\* C16: when the inner step raises inside step, nothing is rolled back: the
\* pair (CurrentRawState, converted action) is in the history as the deque
\* append left it (the oldest pair evicted if the buffer was full) and
\* CurrentRawState is still the observation held before the call; a step
\* that follows starts from that same observation and appends it again.
C16_NoRollbackOnInnerError ==
    [][/\ InnerStepRaised' =>
            /\ cur_raw_state' = pre_cur'
            /\ recent_states' = DequeAppend(pre_states', pre_cur', max_embed_seq_len')
            /\ recent_actions' = DequeAppend(pre_actions', action_np', max_embed_seq_len')
            /\ Len(recent_states') = Min(Len(pre_states') + 1, max_embed_seq_len')
            /\ hist'[Len(hist')] = <<pre_cur', action_np'>>
       /\ (InnerStepRaised /\ caller' = "step" /\ pc' = "step:119") =>
            /\ pre_cur' = pre_cur
            /\ pre_states' = recent_states
            /\ hist' = hist
       /\ (caller = "step" /\ pc = "step:119" /\ pc' = "step:121") =>
            /\ hist' = Append(hist, <<pre_cur, action_np>>)
            /\ recent_states' = DequeAppend(pre_states, pre_cur, max_embed_seq_len)]_vars

\* Two steps in a row were aborted by the inner environment: the buffer
\* holds two pairs with the same observation, which is still current.
C16_Witness ==
    /\ InnerStepRaised
    /\ aborted = 2
    /\ returned = 0
    /\ Len(recent_states) = 2
    /\ recent_states[1] = recent_states[2]
    /\ cur_raw_state = recent_states[2]
    /\ cur_raw_state \in ObsSet
    /\ Len(pre_states) = 1

\* ------------------------------------------------------------------------
\* The last call was a step that returned terminal = true.
TerminalStepReturned == StepReturned /\ ret[3] = TRUE

\* C17: a step whose inner step returns terminal = true leaves the history
\* as any other step does; the buffer loses entries only by a reset (or by
\* the eviction of a full deque's oldest pair in a step's append); a step
\* that follows a terminal step is accepted and appends to the same history.
C17_TerminalKeepsHistory ==
    [][/\ (pc = "embed:103" /\ caller = "step" /\ pc' = "idle" /\ terminal) =>
            /\ ret'[3] = TRUE
            /\ recent_states' = DequeAppend(pre_states, pre_cur, max_embed_seq_len)
            /\ recent_actions' = DequeAppend(pre_actions, action_np, max_embed_seq_len)
       /\ (recent_states' # recent_states \/ recent_actions' # recent_actions) =>
            \/ pc = "step:119" /\ pc' = "step:121"
            \/ pc = "idle" /\ caller' = "reset" /\ env_out' # <<>>
                 /\ recent_states' = <<>> /\ recent_actions' = <<>>
            \/ pc = "new"
       /\ (TerminalStepReturned /\ Len(hist) < MaxSteps /\ is_discrete_action = "True") =>
            ENABLED (step_convert(0) /\ pc' = "step:119")
       /\ (TerminalStepReturned /\ caller' = "step" /\ pc' = "step:119") =>
            /\ recent_states' = recent_states
            /\ recent_actions' = recent_actions
            /\ pre_states' = recent_states
            /\ hist' = hist]_vars

\* A terminal step has returned and the buffer still holds its pair and the
\* pair of the step before it.
C17_Witness ==
    /\ TerminalStepReturned
    /\ returned = 2
    /\ aborted = 0
    /\ Len(recent_states) = 2
    /\ recent_states[2] = pre_cur
    /\ pre_states = <<recent_states[1]>>

\* ------------------------------------------------------------------------
\* C18: a step on an adapter on which no reset has run is not rejected: its
\* cur_raw_state is unset, the pair it appends has that unset value as its
\* observation, and the inner step is then called.  Once an inner reset has
\* returned, CurrentRawState and every observation in the history are raw
\* observations of the inner environment, never the unset value.
C18_StepBeforeReset ==
    /\ ~reset_seen =>
          /\ (pc = "idle" /\ hist = <<>>) => cur_raw_state = None
          /\ Len(hist) >= 1 => hist[1][1] = None
          /\ (pc = "idle" /\ hist = <<>> /\ is_discrete_action = "True") =>
                ENABLED (step_convert(0) /\ pc' = "step:119")
    /\ (StepHasAppended /\ pre_cur = None) =>
          /\ Len(hist) >= 1
          /\ hist[Len(hist)][1] = None
          /\ recent_states = DequeAppend(pre_states, None, max_embed_seq_len)
          /\ pc \in EmbedPcs \cup {"idle"} => (env_calls = 1 /\ env_arg = <<action>>)
    /\ reset_seen =>
          /\ cur_raw_state \in ObsSet
          /\ \A j \in 1..Len(recent_states) : recent_states[j] \in ObsSet
          /\ \A j \in 1..Len(hist) : hist[j][1] \in ObsSet

\* The first call on the adapter was a step: the inner step has returned
\* and the buffer holds the unset observation.
C18_Witness ==
    /\ ~reset_seen
    /\ caller = "step"
    /\ env_calls = 1
    /\ env_out # <<>>
    /\ pre_cur = None
    /\ pre_states = <<>>
    /\ recent_states = <<None>>
    /\ cur_raw_state \in ObsSet

\* ------------------------------------------------------------------------
\* Construction with every combination of supplied and missing bounds.
BoundMins == {None, <<-5>>, <<0>>}
BoundMaxs == {None, <<5>>, <<9>>}
InnerLows == {<<-3, -1>>, <<0, -2>>}
InnerHighs == {<<2, 6>>, <<7, 1>>}

NextBounds ==
    \E kind \in SpaceKinds, maxlen \in 0..MaxSeqLen,
       smin \in BoundMins, smax \in BoundMaxs,
       low \in InnerLows, high \in InnerHighs :
          ConstructWith(kind, maxlen, smin, smax, low, high)

SpecBounds == Init /\ [][NextBounds]_vars

\* C19: the observation space's low and high are the caller's
\* state_min_value and state_max_value only when both are supplied; when
\* either is missing, low is the least of the inner observation space's low
\* bounds and high the greatest of its high bounds, whatever the one bound
\* that was supplied.
C19_BoundsNeedBoth ==
    pc # "new" =>
        LET smin == init_args[1]
            smax == init_args[2]
            low  == init_args[3]
            high == init_args[4]
        IN  /\ Len(observation_space) = 3
            /\ observation_space[3] = embed_size + raw_state_dim
            /\ (smin # None /\ smax # None) =>
                  /\ observation_space[1] = smin[1]
                  /\ observation_space[2] = smax[1]
            /\ (smin = None \/ smax = None) =>
                  /\ \A j \in 1..Len(low) : observation_space[1] <= low[j]
                  /\ \E j \in 1..Len(low) : observation_space[1] = low[j]
                  /\ \A j \in 1..Len(high) : observation_space[2] >= high[j]
                  /\ \E j \in 1..Len(high) : observation_space[2] = high[j]

\* Only state_min_value was supplied, and the space's low is another value.
C19_Witness ==
    /\ pc = "idle"
    /\ init_args[1] # None
    /\ init_args[2] = None
    /\ observation_space[1] # init_args[1][1]
    /\ observation_space[1] = -3
    /\ observation_space[2] = 7

====
